---- MODULE Spec2Model ----
(***************************************************************************)
(* A model of jempe/imagesplitter: the /split-image handler of main.go and *)
(* the imageprocessor package (Processor.ProcessImage and its two          *)
(* strategies, processImageWithGo and processImageWithCLI).                *)
(*                                                                         *)
(* Strings are sequences of one-character strings, so that the string      *)
(* functions of the code (HasSuffix, ToLower, Sprintf, Split, Atoi) are    *)
(* computed and not assumed.  Paths are sequences of path elements.        *)
(***************************************************************************)
EXTENDS Integers, Sequences, FiniteSets, TLC

----------------------------------------------------------------------------
(* Bounds of the model *)

\* the largest image height drawn besides the scenario heights
MaxH == 4
\* the image width served by the remote host
MaxW == 3
\* the largest max_images a request carries
MaxReqImages == 2
\* the render loop is followed for plans of at most this many chunks
MaxChunks == 12
\* the file numbers for which the naming rule is evaluated
MaxFileNumber == 120

----------------------------------------------------------------------------
(* Go integer arithmetic and string functions *)

\* Go's integer division truncates toward zero (b # 0; b = 0 panics)
GoDiv(a, b) ==
  IF (a >= 0 /\ b > 0) \/ (a <= 0 /\ b < 0) THEN
    (IF a >= 0 THEN a ELSE -a) \div (IF b > 0 THEN b ELSE -b)
  ELSE
    -((IF a >= 0 THEN a ELSE -a) \div (IF b > 0 THEN b ELSE -b))

DigitChars == <<"0", "1", "2", "3", "4", "5", "6", "7", "8", "9">>

RECURSIVE NatDigits(_)
NatDigits(n) ==
  IF n < 10 THEN <<DigitChars[n + 1]>>
  ELSE NatDigits(n \div 10) \o <<DigitChars[(n % 10) + 1]>>

\* fmt.Sprintf("%d", n)
SprintfD(n) == IF n < 0 THEN <<"-">> \o NatDigits(-n) ELSE NatDigits(n)

UpperChars ==
  <<"A", "B", "C", "D", "E", "F", "G", "H", "I", "J", "K", "L", "M",
    "N", "O", "P", "Q", "R", "S", "T", "U", "V", "W", "X", "Y", "Z">>

LowerChars ==
  <<"a", "b", "c", "d", "e", "f", "g", "h", "i", "j", "k", "l", "m",
    "n", "o", "p", "q", "r", "s", "t", "u", "v", "w", "x", "y", "z">>

Range(s) == {s[i] : i \in 1..Len(s)}

\* strings.ToLower
ToLower(s) ==
  [i \in 1..Len(s) |->
     IF \E k \in 1..Len(UpperChars) : UpperChars[k] = s[i]
     THEN LowerChars[CHOOSE k \in 1..Len(UpperChars) : UpperChars[k] = s[i]]
     ELSE s[i]]

\* strings.HasSuffix
HasSuffix(s, suffix) ==
  /\ Len(s) >= Len(suffix)
  /\ SubSeq(s, Len(s) - Len(suffix) + 1, Len(s)) = suffix

DotPng == <<".", "p", "n", "g">>
DotJpg == <<".", "j", "p", "g">>
DotZip == <<".", "z", "i", "p">>

SpaceChars == {" ", "\t", "\n"}

RECURSIVE TrimLeft(_)
TrimLeft(s) ==
  IF s # <<>> /\ Head(s) \in SpaceChars THEN TrimLeft(Tail(s)) ELSE s

RECURSIVE TrimRight(_)
TrimRight(s) ==
  IF s # <<>> /\ s[Len(s)] \in SpaceChars
  THEN TrimRight(SubSeq(s, 1, Len(s) - 1)) ELSE s

\* strings.TrimSpace
TrimSpace(s) == TrimRight(TrimLeft(s))

\* strings.Split(s, sep) for a one-character separator: always >= 1 part
RECURSIVE Split(_, _)
Split(s, sep) ==
  IF \A k \in 1..Len(s) : s[k] # sep THEN <<s>>
  ELSE LET k == CHOOSE n \in 1..Len(s) :
                  s[n] = sep /\ \A m \in 1..(n - 1) : s[m] # sep
       IN <<SubSeq(s, 1, k - 1)>> \o Split(SubSeq(s, k + 1, Len(s)), sep)

DigitValue(c) == (CHOOSE k \in 1..10 : DigitChars[k] = c) - 1

RECURSIVE DigitsValue(_)
DigitsValue(s) ==
  IF s = <<>> THEN 0
  ELSE 10 * DigitsValue(SubSeq(s, 1, Len(s) - 1)) + DigitValue(s[Len(s)])

\* strconv.Atoi: an optional sign, then one or more decimal digits
Atoi(s) ==
  LET signed == s # <<>> /\ Head(s) \in {"+", "-"}
      body == IF signed THEN Tail(s) ELSE s
  IN IF body = <<>> \/ \E k \in 1..Len(body) : body[k] \notin Range(DigitChars)
     THEN [ok |-> FALSE, val |-> 0]
     ELSE [ok |-> TRUE,
           val |-> IF signed /\ Head(s) = "-" THEN -DigitsValue(body)
                   ELSE DigitsValue(body)]

----------------------------------------------------------------------------
(* Paths: a path is a sequence of elements, an element a string *)

\* filepath.Join(dir, name)
Join(dir, name) == Append(dir, name)

\* filepath.Base
Base(path) == path[Len(path)]

\* filepath.Rel(base, path) for a path under base
Rel(base, path) == SubSeq(path, Len(base) + 1, Len(path))

\* filepath.Abs of a path that is absolute already (-file-path starts with "/")
Abs(path) == path

----------------------------------------------------------------------------
(* The chunk arithmetic of processImageWithGo *)

\* cropWidth: requestedWidth > 0 && originalWidth > requestedWidth
CropWidthGo(originalWidth, requestedWidth) ==
  requestedWidth > 0 /\ originalWidth > requestedWidth

\* width := originalWidth, and requestedWidth when cropping
WidthGo(originalWidth, requestedWidth) ==
  IF CropWidthGo(originalWidth, requestedWidth) THEN requestedWidth
  ELSE originalWidth

\* OffsetGo with the centred offset of the comment
OffsetCentred(originalWidth, width, cropWidth) ==
  IF cropWidth THEN GoDiv(originalWidth - width, 2) ELSE 0

\* offset := 0 //(originalWidth - width) / 2; srcX = x + offset when cropping
OffsetGo(originalWidth, width, cropWidth) == 0

\* CeilCountGo without the rounding up: totalHeight / maxHeight
CeilCountFloor(totalHeight, maxHeight) == GoDiv(totalHeight, maxHeight)

\* splitCount := (totalHeight + maxHeight - 1) / maxHeight, maxHeight # 0
CeilCountGo(totalHeight, maxHeight) ==
  GoDiv(totalHeight + maxHeight - 1, maxHeight)

\* SplitCountGo without the limit of maxImages
SplitCountNoLimit(totalHeight, maxHeight, maxImages) ==
  GoDiv(totalHeight + maxHeight - 1, maxHeight)

\* if maxImages > 0 && splitCount > maxImages { splitCount = maxImages }
SplitCountGo(totalHeight, maxHeight, maxImages) ==
  IF maxImages > 0 /\ CeilCountGo(totalHeight, maxHeight) > maxImages
  THEN maxImages
  ELSE CeilCountGo(totalHeight, maxHeight)

\* startY := i * maxHeight
StartYGo(i, maxHeight) == i * maxHeight

\* endY := startY + maxHeight; if endY > totalHeight { endY = totalHeight }
EndYGo(i, maxHeight, totalHeight) ==
  IF StartYGo(i, maxHeight) + maxHeight > totalHeight THEN totalHeight
  ELSE StartYGo(i, maxHeight) + maxHeight

\* fileNumberStr: "%d", and "0%d" when fileNumber < 10
FileNumberStrGo(fileNumber) ==
  IF fileNumber < 10 THEN <<"0">> \o SprintfD(fileNumber)
  ELSE SprintfD(fileNumber)

\* ChunkFileNameGo without the number of the chunk
ChunkFileNameUnnumbered(imagesPrefix, fileNumber) == imagesPrefix \o DotJpg

\* fmt.Sprintf("%s_%s.jpg", imagesPrefix, fileNumberStr)
ChunkFileNameGo(imagesPrefix, fileNumber) ==
  imagesPrefix \o <<"_">> \o FileNumberStrGo(fileNumber) \o DotJpg

----------------------------------------------------------------------------
(* The chunk arithmetic of processImageWithCLI *)

\* cropWidth: requestedWidth > 0 && originalWidth > requestedWidth
CropWidthCLI(originalWidth, requestedWidth) ==
  requestedWidth > 0 /\ originalWidth > requestedWidth

\* width = requestedWidth when cropping
WidthCLI(originalWidth, requestedWidth) ==
  IF CropWidthCLI(originalWidth, requestedWidth) THEN requestedWidth
  ELSE originalWidth

\* the left argument of vips crop: xOffset := 0 when cropping, "0" otherwise
XOffsetCLI(width, requestedWidth, cropWidth) == 0

\* the width argument of vips crop: requestedWidth when cropping, else width
CropArgWidthCLI(width, requestedWidth, cropWidth) ==
  IF cropWidth THEN requestedWidth ELSE width

\* splitCount := (totalHeight + maxHeight - 1) / maxHeight, maxHeight # 0
CeilCountCLI(totalHeight, maxHeight) ==
  GoDiv(totalHeight + maxHeight - 1, maxHeight)

\* if maxImages > 0 && splitCount > maxImages { splitCount = maxImages }
SplitCountCLI(totalHeight, maxHeight, maxImages) ==
  IF maxImages > 0 /\ CeilCountCLI(totalHeight, maxHeight) > maxImages
  THEN maxImages
  ELSE CeilCountCLI(totalHeight, maxHeight)

\* StartYCLI counting the chunks from one
StartYFromOne(i, maxHeight) == (i + 1) * maxHeight

\* startY := i * maxHeight
StartYCLI(i, maxHeight) == i * maxHeight

\* EndYCLI without the clamp to totalHeight
EndYNoClamp(i, maxHeight, totalHeight) == i * maxHeight + maxHeight

\* endY := startY + maxHeight; if endY > totalHeight { endY = totalHeight }
EndYCLI(i, maxHeight, totalHeight) ==
  IF StartYCLI(i, maxHeight) + maxHeight > totalHeight THEN totalHeight
  ELSE StartYCLI(i, maxHeight) + maxHeight

\* FileNumberStrCLI without the leading zero
FileNumberStrUnpadded(fileNumber) == SprintfD(fileNumber)

\* fileNumberStr: "%d", and "0%d" when fileNumber < 10
FileNumberStrCLI(fileNumber) ==
  IF fileNumber < 10 THEN <<"0">> \o SprintfD(fileNumber)
  ELSE SprintfD(fileNumber)

\* fmt.Sprintf("%s_%s.jpg", imagesPrefix, fileNumberStr)
ChunkFileNameCLI(imagesPrefix, fileNumber) ==
  imagesPrefix \o <<"_">> \o FileNumberStrCLI(fileNumber) \o DotJpg

----------------------------------------------------------------------------
(* Names both strategies and ProcessImage build the same way *)

\* fmt.Sprintf("%s.zip", imagesPrefix)
ZipFileName(imagesPrefix) == imagesPrefix \o DotZip

\* fileExt: ".png" when the lower-cased URL ends in ".png", ".jpg" otherwise
FileExt(url) == IF HasSuffix(ToLower(url), DotPng) THEN DotPng ELSE DotJpg

\* "original_image" + fileExt
TempImageName(url) ==
  <<"o", "r", "i", "g", "i", "n", "a", "l", "_", "i", "m", "a", "g", "e">>
    \o FileExt(url)

----------------------------------------------------------------------------
(* Configuration (the flags of main) and the requests the model sends *)

\* -max-height defaults to 5000
DefaultMaxHeight == 5000

\* -max-height is any integer: main validates -url-host and -file-path only
MaxHeights == {-1, 0, 1, 2, DefaultMaxHeight}

\* -url-host starts with http:// and ends with a slash
UrlHost == <<"h", "t", "t", "p", ":", "/", "/", "h", "/">>

\* -file-path, the storage root, as a path of one element
FilePath == <<<<"s", "r", "v">>>>

\* -username and -password: unset, or the credentials of the server
Usernames == {"", "admin"}
Passwords == {"", "secret"}

Configs ==
  [urlHost : {UrlHost}, filePath : {FilePath},
   maxHeight : MaxHeights, useCLI : BOOLEAN,
   username : Usernames, password : Passwords]

Methods == {"POST", "GET"}

Urls == {<<>>, <<"a", ".", "j", "p", "g">>, <<"b", ".", "P", "N", "G">>}

Prefixes == {<<>>, <<"p", "_", "1">>, <<"p", "-">>}

ReqWidths == (-1)..(MaxW + 1)

ReqMaxImages == (-1)..MaxReqImages

\* type ImageRequest, with the method and whether the body is valid JSON
Requests ==
  [method : Methods, jsonOk : {TRUE}, url : Urls, prefix : Prefixes,
   width : ReqWidths, maxImages : ReqMaxImages, createZip : BOOLEAN]
  \cup
  [method : Methods, jsonOk : {FALSE}, url : {<<>>}, prefix : {<<>>},
   width : {0}, maxImages : {0}, createZip : {FALSE}]

\* the images the remote host can serve
ImgWidths == {MaxW}
ImgHeights == (1..MaxH) \cup {12, 12000}

\* the allowed set handleSplitImage passes to containsOnlyAllowedChars
AllowedChars ==
  Range(LowerChars) \cup Range(UpperChars) \cup Range(DigitChars) \cup {"_"}

\* containsOnlyAllowedChars(s, allowed)
ContainsOnlyAllowedChars(s, allowed) == \A k \in 1..Len(s) : s[k] \in allowed

\* type ImageResponse; the message is kept as the count it prints
EmptyResponse == [status |-> "", parts |-> 0, zipUrl |-> <<>>, images |-> <<>>]

NoRequest ==
  [method |-> "", jsonOk |-> FALSE, url |-> <<>>, prefix |-> <<>>,
   width |-> 0, maxImages |-> 0, createZip |-> FALSE]

NoReply == [code |-> 0, error |-> "", body |-> EmptyResponse]

\* a file's content; w, h, x, y describe an image, entries and final an archive
File(kind, w, h, x, y) ==
  [kind |-> kind, w |-> w, h |-> h, x |-> x, y |-> y,
   entries |-> <<>>, final |-> FALSE]

ZipFile(entries, final) ==
  [kind |-> "zip", w |-> 0, h |-> 0, x |-> 0, y |-> 0,
   entries |-> entries, final |-> final]

----------------------------------------------------------------------------
VARIABLES
  cfg,        \* the flags: urlHost, filePath, maxHeight, useCLI
  now,        \* time.Now().Unix()
  pc,         \* where the handler of the request is
  req,        \* the request received
  dirs,       \* the directories under the storage root
  files,      \* the files under the storage root: path -> content
  fetched,    \* what the remote host or curl did on the download
  fetches,    \* how many times the download was started
  loc,        \* the locals of ProcessImage and of the strategy function
  chunks,     \* the chunk of each loop iteration run so far
  chunkPaths, \* chunkPaths
  images,     \* images
  ret,        \* what ProcessImage returned: result and err
  reply,      \* what the handler sent
  runs,       \* the runs the host executes side by side: run -> its locals
  quit,       \* a signal waits in the quit channel of serve
  gpc,        \* where the shutdown goroutine of serve is
  mpc,        \* where the main flow of serve is
  listening,  \* the listener of srv accepts connections
  inFlight,   \* the number of handlers executing
  elapsed,    \* seconds since the shutdown context was created
  shutdownErr, \* err, what srv.Shutdown returned ("" is nil)
  received,   \* the values the main flow received from shutdownError
  wgCounter,  \* the counter of wg
  serveRet,   \* what serve returned ("none" while it runs, "nil" for nil)
  auth,       \* what r.BasicAuth() returned in basicAuth
  vipsOutput, \* an output of vipsheader handed to the parse on its own
  probed,     \* what the parse and the plan made of vipsOutput
  imageDims,  \* the dimensions of an image handed to both planners
  planned     \* the plan each strategy made of imageDims

\* the variables of the handler of the single request
pipelineVars ==
  <<cfg, now, pc, req, dirs, files, fetched, fetches, loc, chunks,
    chunkPaths, images, ret, reply>>

\* the variables of serve
serveVars ==
  <<quit, gpc, mpc, listening, inFlight, elapsed, shutdownErr, received,
    wgCounter, serveRet>>

\* the variables the handler of the single request never touches
\* the variables of the parse of vipsheader's output and of the plans of
\* the two strategies, each taken on its own
pureVars == <<vipsOutput, probed, imageDims, planned>>

others == <<runs, serveVars, auth, pureVars>>

vars == <<pipelineVars, others>>

NoLocals ==
  [imageURL |-> <<>>, outputDir |-> <<>>, tempImagePath |-> <<>>,
   originalWidth |-> 0, width |-> 0, cropWidth |-> FALSE, totalHeight |-> 0,
   splitCount |-> 0, i |-> 0, j |-> 0, zipFileName |-> <<>>]

NotFetched == [outcome |-> "", status |-> 0, body |-> File("none", 0, 0, 0, 0)]

\* the two requests the host serves at the same time
RunIds == {"r1", "r2"}

\* a run that has not been started
NoRun ==
  [pc |-> "idle", imageURL |-> <<>>, imagesPrefix |-> <<>>, splitCount |-> 0,
   outputDir |-> <<>>, i |-> 0, written |-> {}]

\* the handler of the single request at rest
InitPipeline ==
  /\ cfg \in Configs
  /\ now = 17
  /\ pc = "idle"
  /\ req = NoRequest
  /\ dirs = {}
  /\ files = << >>
  /\ fetched = NotFetched
  /\ fetches = 0
  /\ loc = NoLocals
  /\ chunks = <<>>
  /\ chunkPaths = <<>>
  /\ images = <<>>
  /\ ret = [result |-> EmptyResponse, err |-> ""]
  /\ reply = NoReply

\* no credentials read from a request
NoAuth == [ok |-> FALSE, username |-> "", password |-> ""]

\* main wraps the handler with basicAuth when both credentials are set
AuthEnabled == cfg.username # "" /\ cfg.password # ""

\* no output of vipsheader under study
NoOutput == [text |-> <<>>, shaped |-> FALSE, w |-> <<>>, h |-> <<>>]

NotProbed ==
  [done |-> FALSE, err |-> "", width |-> 0, height |-> 0,
   planned |-> FALSE, splitCount |-> 0]

\* no plan made
NotPlanned ==
  [done |-> FALSE, splitCountGo |-> 0, splitCountCLI |-> 0,
   chunksGo |-> <<>>, chunksCLI |-> <<>>]

InitPure ==
  /\ vipsOutput = NoOutput
  /\ probed = NotProbed
  /\ imageDims = [width |-> 0, height |-> 0]
  /\ planned = NotPlanned

\* serve before srv.ListenAndServe: the goroutine waits on quit, wg is unused
InitServe ==
  /\ quit = FALSE
  /\ gpc = "quit"
  /\ mpc = "listen"
  /\ listening = TRUE
  /\ inFlight = 0
  /\ elapsed = 0
  /\ shutdownErr = ""
  /\ received = <<>>
  /\ wgCounter = 0
  /\ serveRet = "none"

\* a server started without credentials, one request
Init ==
  /\ InitPipeline
  /\ cfg.username = "" /\ cfg.password = ""
  /\ auth = NoAuth
  /\ runs = [r \in RunIds |-> NoRun]
  /\ InitServe
  /\ InitPure

----------------------------------------------------------------------------
(* handleSplitImage up to the call of ProcessImage *)

\* Rejection without the check of max_images
RejectionNoMaxImages(r) ==
  IF r.method # "POST" THEN "Method not allowed"
  ELSE IF ~r.jsonOk THEN "Invalid JSON"
  ELSE IF r.url = <<>> THEN "URL is required"
  ELSE IF ~(\A k \in 1..Len(r.prefix) : r.prefix[k] \in AllowedChars)
    THEN "images_prefix contains invalid characters"
  ELSE ""

\* the first check of handleSplitImage that rejects r, "" when none does
Rejection(r) ==
  IF r.method # "POST" THEN "Method not allowed"
  ELSE IF ~r.jsonOk THEN "Invalid JSON"
  ELSE IF r.url = <<>> THEN "URL is required"
  ELSE IF r.maxImages < 0 THEN "max_images must be a positive integer"
  ELSE IF ~ContainsOnlyAllowedChars(r.prefix, AllowedChars)
    THEN "images_prefix contains invalid characters"
  ELSE ""

\* the status handleSplitImage sends with each rejection
RejectionCode(msg) ==
  IF msg = "Method not allowed" THEN 405 ELSE 400

\* apiResponse(w, status, map[string]string{"error": msg})
ErrorReply(code, msg) == [code |-> code, error |-> msg, body |-> EmptyResponse]

\* the credentials a request carries; ok is false when it has no Basic header
Credentials ==
  {NoAuth} \cup
  [ok : {TRUE}, username : {"", "admin", "guest"},
   password : {"", "secret", "guess"}]

\* CredentialsMatch accepting a request when either value matches
CredentialsMatchEither(username, password) ==
  username = cfg.username \/ password = cfg.password

\* usernameMatch && passwordMatch: subtle.ConstantTimeCompare is 1 exactly
\* when the two byte strings are equal
CredentialsMatch(username, password) ==
  username = cfg.username /\ password = cfg.password

\* http.Error(w, "Unauthorized", http.StatusUnauthorized)
Unauthorized == [code |-> 401, error |-> "Unauthorized", body |-> EmptyResponse]

\* basicAuth(handleSplitImage), the handler main registers when both
\* credentials are set: 401 without credentials or on a mismatch, next(w, r)
\* otherwise
BasicAuth ==
  /\ pc = "idle"
  /\ AuthEnabled
  /\ \E c \in Credentials :
       /\ auth' = c
       /\ IF ~c.ok \/ ~CredentialsMatch(c.username, c.password)
          THEN /\ reply' = Unauthorized
               /\ pc' = "replied"
          ELSE /\ reply' = reply
               /\ pc' = "next"
  /\ UNCHANGED <<runs, serveVars, pureVars, cfg, now, req, dirs, files, fetched, fetches,
                 loc, chunks, chunkPaths, images, ret>>

HandleSplitImage ==
  /\ pc = IF AuthEnabled THEN "next" ELSE "idle"
  /\ \E r \in Requests :
       /\ req' = r
       /\ IF Rejection(r) # ""
          THEN /\ reply' = ErrorReply(RejectionCode(Rejection(r)), Rejection(r))
               /\ pc' = "replied"
               /\ loc' = loc
          ELSE /\ reply' = reply
               /\ pc' = "mkdir"
               /\ loc' = [loc EXCEPT !.imageURL = cfg.urlHost \o r.url]
  /\ UNCHANGED <<others, cfg, now, dirs, files, fetched, fetches, chunks, chunkPaths,
                 images, ret>>

----------------------------------------------------------------------------
(* Processor.ProcessImage: the working directory and the download *)

\* ErrReturn handing back the chunks rendered so far with the error
ErrReturnPartial(e) ==
  [result |-> [status |-> "", parts |-> 0, zipUrl |-> <<>>,
               images |-> [k \in 1..Len(chunkPaths) |->
                             Rel(cfg.filePath, chunkPaths[k])]],
   err |-> e]

\* return ImageResponse{}, err
ErrReturn(e) == [result |-> EmptyResponse, err |-> e]

\* outputDir := filepath.Join(outputBaseDir, fmt.Sprintf("%d", time.Now().Unix()))
OutputDir(base, t) == Join(base, SprintfD(t))

\* WriteFile that leaves the written file alone on the disk
WriteFileAlone(fs, path, content) == [q \in {path} |-> content]

\* files with the file at path written (created or replaced)
WriteFile(fs, path, content) ==
  [q \in (DOMAIN fs) \cup {path} |-> IF q = path THEN content ELSE fs[q]]

\* os.MkdirAll(outputDir, 0755), then tempImagePath
MkdirAll ==
  /\ pc = "mkdir"
  /\ \E ok \in BOOLEAN :
       IF ok
       THEN /\ dirs' = dirs \cup {OutputDir(cfg.filePath, now)}
            /\ loc' = [loc EXCEPT
                 !.outputDir = OutputDir(cfg.filePath, now),
                 !.tempImagePath =
                    Join(OutputDir(cfg.filePath, now), TempImageName(loc.imageURL))]
            /\ pc' = "download"
            /\ ret' = ret
       ELSE /\ ret' = ErrReturn("failed to create output directory")
            /\ pc' = "returned"
            /\ UNCHANGED <<dirs, loc>>
  /\ UNCHANGED <<others, cfg, now, req, files, fetched, fetches, chunks, chunkPaths,
                 images, reply>>

\* what the remote host can answer: a status and a body
Statuses == {200, 404}

Bodies ==
  {File("image", w, h, 0, 0) : w \in ImgWidths, h \in ImgHeights}
    \cup {File("garbage", 0, 0, 0, 0), File("empty", 0, 0, 0, 0)}

\* the bodies whose chunk loop the model follows to its end
ServedBodies ==
  {b \in Bodies :
     b.kind = "image" /\ cfg.maxHeight # 0 =>
       (IF cfg.useCLI
        THEN SplitCountCLI(b.h, cfg.maxHeight, req.maxImages)
        ELSE SplitCountGo(b.h, cfg.maxHeight, req.maxImages)) <= MaxChunks}

\* the messages of the errors downloadImage and downloadImageWithCurl return
FetchErrors ==
  {"failed to create request", "failed to download image",
   "failed to create output file", "failed to save image",
   "failed to download image with curl", "failed to verify downloaded file",
   "downloaded file is empty"}

\* the error downloadImage returns for what happened; "" is nil.
\* client.Do fails on a transport error only: the status is never looked at.
DownloadImageErr(outcome, status) ==
  CASE outcome = "request" -> "failed to create request"
    [] outcome = "transport" -> "failed to download image"
    [] outcome = "create" -> "failed to create output file"
    [] outcome = "copy" -> "failed to save image"
    [] OTHER -> ""

\* downloadImage(url, tempImagePath), the in-process download
DownloadImage ==
  /\ pc = "download"
  /\ ~cfg.useCLI
  /\ \E o \in {"request", "transport", "create", "copy", "ok"} :
     \E st \in Statuses, b \in ServedBodies :
       /\ fetched' = IF o \in {"request", "transport"}
                     THEN [outcome |-> o, status |-> 0,
                           body |-> File("none", 0, 0, 0, 0)]
                     ELSE [outcome |-> o, status |-> st, body |-> b]
       /\ files' = CASE o = "ok" -> WriteFile(files, loc.tempImagePath, b)
                     [] o = "copy" ->
                          WriteFile(files, loc.tempImagePath,
                                    File("truncated", 0, 0, 0, 0))
                     [] OTHER -> files
       /\ IF DownloadImageErr(o, st) # ""
          THEN /\ ret' = ErrReturn(DownloadImageErr(o, st))
               /\ pc' = "returned"
          ELSE /\ ret' = ret
               /\ pc' = "probe"
  /\ fetches' = fetches + 1
  /\ UNCHANGED <<others, cfg, now, req, dirs, loc, chunks, chunkPaths, images, reply>>

\* the error downloadImageWithCurl returns for what curl did; "" is nil
CurlErr(outcome) ==
  CASE outcome = "exit" -> "failed to download image with curl"
    [] outcome = "missing" -> "failed to verify downloaded file"
    [] outcome = "emptyfile" -> "downloaded file is empty"
    [] OTHER -> ""

\* downloadImageWithCurl(url, tempImagePath): curl --fail --output, then os.Stat.
\* curl --fail exits non-zero on a transport error and on a status >= 400.
DownloadImageWithCurl ==
  /\ pc = "download"
  /\ cfg.useCLI
  /\ \E o \in {"exit", "missing", "emptyfile", "ok"} :
     \E st \in Statuses \cup {0}, b \in ServedBodies :
       /\ o = "exit" <=> st # 200
       /\ o \in {"missing", "emptyfile"} <=> (st = 200 /\ b.kind = "empty")
       /\ fetched' = IF o = "exit"
                     THEN [outcome |-> o, status |-> st,
                           body |-> File("none", 0, 0, 0, 0)]
                     ELSE [outcome |-> o, status |-> st, body |-> b]
       /\ files' = IF o \in {"ok", "emptyfile"}
                   THEN WriteFile(files, loc.tempImagePath, b)
                   ELSE files
       /\ IF CurlErr(o) # ""
          THEN /\ ret' = ErrReturn(CurlErr(o))
               /\ pc' = "returned"
          ELSE /\ ret' = ret
               /\ pc' = "probe"
  /\ fetches' = fetches + 1
  /\ UNCHANGED <<others, cfg, now, req, dirs, loc, chunks, chunkPaths, images, reply>>

----------------------------------------------------------------------------
(* The head of the strategy functions: the dimensions and the plan *)

\* the locals of processImageWithGo before its loop (maxHeight # 0)
PlannedGo(l, originalWidth, totalHeight) ==
  [l EXCEPT
     !.originalWidth = originalWidth,
     !.width = WidthGo(originalWidth, req.width),
     !.cropWidth = CropWidthGo(originalWidth, req.width),
     !.totalHeight = totalHeight,
     !.splitCount = SplitCountGo(totalHeight, cfg.maxHeight, req.maxImages),
     !.i = 0]

\* the locals of processImageWithCLI before its loop (maxHeight # 0)
PlannedCLI(l, originalWidth, totalHeight) ==
  [l EXCEPT
     !.originalWidth = originalWidth,
     !.width = WidthCLI(originalWidth, req.width),
     !.cropWidth = CropWidthCLI(originalWidth, req.width),
     !.totalHeight = totalHeight,
     !.splitCount = SplitCountCLI(totalHeight, cfg.maxHeight, req.maxImages),
     !.i = 0]

\* processImageWithGo up to the loop: os.Open, image.Decode, img.Bounds().
\* With maxHeight = 0 the division panics and the function never returns.
ProbeWithGo ==
  /\ pc = "probe"
  /\ ~cfg.useCLI
  /\ \E opened \in BOOLEAN :
       LET f == files[loc.tempImagePath] IN
       IF ~opened
       THEN /\ ret' = ErrReturn("failed to open image file")
            /\ pc' = "returned"
            /\ loc' = loc
       ELSE IF f.kind # "image"
       THEN /\ ret' = ErrReturn("failed to decode image")
            /\ pc' = "returned"
            /\ loc' = loc
       ELSE IF cfg.maxHeight = 0
       THEN /\ ret' = ret
            /\ pc' = "panicked"
            /\ loc' = [loc EXCEPT !.originalWidth = f.w, !.totalHeight = f.h,
                         !.width = WidthGo(f.w, req.width),
                         !.cropWidth = CropWidthGo(f.w, req.width)]
       ELSE /\ ret' = ret
            /\ pc' = "render"
            /\ loc' = PlannedGo(loc, f.w, f.h)
  /\ UNCHANGED <<others, cfg, now, req, dirs, files, fetched, fetches, chunks,
                 chunkPaths, images, reply>>

\* what vipsheader prints for an image: "name: WxH uchar, ..."
HeaderText(w, h) ==
  <<"f", ":", " ">> \o SprintfD(w) \o <<"x">> \o SprintfD(h)
    \o <<" ", "u", "c", "h", "a", "r", "\n">>

\* outputs without the expected structure
MalformedHeaders ==
  {<<"3", "x", "5", "\n">>,
   <<"f", ":", " ", "3", " ", "5", "\n">>,
   <<"f", ":", " ", "a", "x", "5", "\n">>,
   <<"f", ":", " ", "3", "x", "\n">>}

\* the parse of vipsheader's output in processImageWithCLI; err "" is nil
ParseVipsHeader(output) ==
  LET outputStr == TrimSpace(output)
      parts == Split(outputStr, ":")
      dimensionPart == TrimSpace(parts[2])
      dimensionTokens == Split(dimensionPart, " ")
      dimensions == Split(dimensionTokens[1], "x")
      bad(e) == [err |-> e, width |-> 0, height |-> 0]
  IN IF Len(parts) < 2
       THEN bad("unexpected output format from vipsheader")
     ELSE IF Len(dimensionTokens) < 1 \/ Len(dimensions) # 2
       THEN bad("unexpected dimension format from vipsheader")
     ELSE IF ~Atoi(dimensions[1]).ok
       THEN bad("failed to parse image width")
     ELSE IF ~Atoi(dimensions[2]).ok
       THEN bad("failed to parse image height")
     ELSE [err |-> "", width |-> Atoi(dimensions[1]).val,
           height |-> Atoi(dimensions[2]).val]

\* processImageWithCLI up to the loop: vipsheader, the parse, the plan.
\* vipsheader exits non-zero on a file that is no image.
ProbeWithCLI ==
  /\ pc = "probe"
  /\ cfg.useCLI
  /\ LET f == files[loc.tempImagePath] IN
     \E out \in (IF f.kind = "image" THEN {HeaderText(f.w, f.h)} ELSE {})
                  \cup MalformedHeaders \cup {<<>>} :
       LET exited == out = <<>>
           dims == ParseVipsHeader(out)
       IN
       IF exited
       THEN /\ ret' = ErrReturn("failed to get image dimensions")
            /\ pc' = "returned"
            /\ loc' = loc
       ELSE IF dims.err # ""
       THEN /\ ret' = ErrReturn(dims.err)
            /\ pc' = "returned"
            /\ loc' = loc
       ELSE IF cfg.maxHeight = 0
       THEN /\ ret' = ret
            /\ pc' = "panicked"
            /\ loc' = [loc EXCEPT !.originalWidth = dims.width,
                         !.totalHeight = dims.height,
                         !.width = WidthCLI(dims.width, req.width),
                         !.cropWidth = CropWidthCLI(dims.width, req.width)]
       ELSE /\ ret' = ret
            /\ pc' = "render"
            /\ loc' = PlannedCLI(loc, dims.width, dims.height)
  /\ UNCHANGED <<others, cfg, now, req, dirs, files, fetched, fetches, chunks,
                 chunkPaths, images, reply>>

----------------------------------------------------------------------------
(* The chunk loop *)

\* ChunkGo with the loop running from the last chunk to the first
ChunkGoDescending(l, i) ==
  [index |-> l.splitCount - i,
   startY |-> StartYGo(l.splitCount - i - 1, cfg.maxHeight),
   endY |-> EndYGo(l.splitCount - i - 1, cfg.maxHeight, l.totalHeight),
   outWidth |-> l.width,
   xOffset |-> OffsetGo(l.originalWidth, l.width, l.cropWidth),
   path |-> Join(l.outputDir, ChunkFileNameGo(req.prefix, l.splitCount - i))]

\* what iteration i of the loop of processImageWithGo computes: the rows
\* copied, the size of subImg, the source column of column 0, outputPath
ChunkGo(l, i) ==
  [index |-> i + 1,
   startY |-> StartYGo(i, cfg.maxHeight),
   endY |-> EndYGo(i, cfg.maxHeight, l.totalHeight),
   outWidth |-> l.width,
   xOffset |-> OffsetGo(l.originalWidth, l.width, l.cropWidth),
   path |-> Join(l.outputDir, ChunkFileNameGo(req.prefix, i + 1))]

\* what iteration i of the loop of processImageWithCLI computes: the
\* arguments of vips crop (left, top, width, height as endY - startY)
ChunkCLI(l, i) ==
  [index |-> i + 1,
   startY |-> StartYCLI(i, cfg.maxHeight),
   endY |-> EndYCLI(i, cfg.maxHeight, l.totalHeight),
   outWidth |-> CropArgWidthCLI(l.width, req.width, l.cropWidth),
   xOffset |-> XOffsetCLI(l.width, req.width, l.cropWidth),
   path |-> Join(l.outputDir, ChunkFileNameCLI(req.prefix, i + 1))]

\* the chunks the loop of the configured strategy runs through
Plan(l) ==
  [k \in 1..l.splitCount |->
     IF cfg.useCLI THEN ChunkCLI(l, k - 1) ELSE ChunkGo(l, k - 1)]

AbsInt(n) == IF n < 0 THEN -n ELSE n

\* one iteration of the loop of processImageWithGo: image.NewRGBA (image.Rect
\* puts the corners in order), the pixel copy, os.Create and the encoder
RenderChunkWithGo ==
  /\ pc = "render"
  /\ ~cfg.useCLI
  /\ loc.i < loc.splitCount
  /\ LET c == ChunkGo(loc, loc.i) IN
     \E o \in {"create", "encode", "ok"} :
       /\ files' = CASE o = "ok" ->
                        WriteFile(files, c.path,
                          File("chunk", c.outWidth, AbsInt(c.endY - c.startY),
                               c.xOffset, c.startY))
                     [] o = "encode" ->
                        WriteFile(files, c.path, File("truncated", 0, 0, 0, 0))
                     [] OTHER -> files
       /\ IF o = "ok"
          THEN /\ chunkPaths' = Append(chunkPaths, Abs(c.path))
               /\ chunks' = Append(chunks, c)
               /\ loc' = [loc EXCEPT !.i = loc.i + 1]
               /\ UNCHANGED <<pc, ret>>
          ELSE /\ ret' = ErrReturn(IF o = "create"
                                   THEN "failed to create output file"
                                   ELSE "failed to save split image")
               /\ pc' = "returned"
               /\ UNCHANGED <<chunkPaths, chunks, loc>>
  /\ UNCHANGED <<others, cfg, now, req, dirs, fetched, fetches, images, reply>>

\* vips crop writes the area only when it lies inside the image
CropAreaValid(l, c) ==
  /\ c.xOffset >= 0 /\ c.startY >= 0
  /\ c.outWidth >= 1 /\ c.endY - c.startY >= 1
  /\ c.xOffset + c.outWidth <= l.originalWidth
  /\ c.endY <= l.totalHeight

\* one iteration of the loop of processImageWithCLI: vips crop
RenderChunkWithCLI ==
  /\ pc = "render"
  /\ cfg.useCLI
  /\ loc.i < loc.splitCount
  /\ LET c == ChunkCLI(loc, loc.i) IN
     \E ok \in BOOLEAN :
       /\ ok => CropAreaValid(loc, c)
       /\ IF ok
          THEN /\ files' = WriteFile(files, c.path,
                             File("chunk", c.outWidth, c.endY - c.startY,
                                  c.xOffset, c.startY))
               /\ chunkPaths' = Append(chunkPaths, Abs(c.path))
               /\ chunks' = Append(chunks, c)
               /\ loc' = [loc EXCEPT !.i = loc.i + 1]
               /\ UNCHANGED <<pc, ret>>
          ELSE /\ ret' = ErrReturn("failed to split image")
               /\ pc' = "returned"
               /\ UNCHANGED <<files, chunkPaths, chunks, loc>>
  /\ UNCHANGED <<others, cfg, now, req, dirs, fetched, fetches, images, reply>>

----------------------------------------------------------------------------
(* The archive and the result *)

\* imageRelPath for every chunk path, in order
RelPaths(paths) == [k \in 1..Len(paths) |-> Rel(cfg.filePath, paths[k])]

\* return ImageResponse{Status: "success", ...}, nil
Success(l, zipFileName, imgs) ==
  [result |-> [status |-> "success", parts |-> l.splitCount,
               zipUrl |-> Rel(cfg.filePath, Abs(zipFileName)),
               images |-> imgs],
   err |-> ""]

\* processImageWithGo after the loop: os.Create of the archive, zip.NewWriter
CreateZipWithGo ==
  /\ pc = "render"
  /\ ~cfg.useCLI
  /\ loc.i >= loc.splitCount
  /\ LET zipFileName == Join(loc.outputDir, ZipFileName(req.prefix)) IN
     \E ok \in BOOLEAN :
       IF ok
       THEN /\ files' = WriteFile(files, zipFileName, ZipFile(<<>>, FALSE))
            /\ loc' = [loc EXCEPT !.zipFileName = zipFileName, !.j = 0]
            /\ images' = <<>>
            /\ pc' = "addzip"
            /\ ret' = ret
       ELSE /\ ret' = ErrReturn("failed to create zip file")
            /\ pc' = "returned"
            /\ UNCHANGED <<files, loc, images>>
  /\ UNCHANGED <<others, cfg, now, req, dirs, fetched, fetches, chunks, chunkPaths,
                 reply>>

\* ZipEntryName keeping the directory of the file in the name
ZipEntryNameWithDir(filePath) ==
  filePath[Len(filePath) - 1] \o <<"/">> \o filePath[Len(filePath)]

\* header.Name = filepath.Base(filePath)
ZipEntryName(filePath) == Base(filePath)

\* one iteration of the archive loop: addFileToZip(zipWriter, imagePath).
\* On an error the function returns and the deferred zipWriter.Close() runs.
AddFileToZip ==
  /\ pc = "addzip"
  /\ loc.j < Len(chunkPaths)
  /\ LET imagePath == chunkPaths[loc.j + 1]
         z == files[loc.zipFileName]
     IN
     \E o \in {"open", "copy", "ok"}, closed \in BOOLEAN :
       IF o = "ok"
       THEN /\ files' = WriteFile(files, loc.zipFileName,
                          ZipFile(Append(z.entries, ZipEntryName(imagePath)), FALSE))
            /\ images' = Append(images, Rel(cfg.filePath, imagePath))
            /\ loc' = [loc EXCEPT !.j = loc.j + 1]
            /\ UNCHANGED <<pc, ret>>
       ELSE /\ files' = WriteFile(files, loc.zipFileName,
                          ZipFile(IF o = "copy"
                                  THEN Append(z.entries, ZipEntryName(imagePath))
                                  ELSE z.entries, closed))
            /\ ret' = ErrReturn("failed to add file to zip")
            /\ pc' = "returned"
            /\ UNCHANGED <<images, loc>>
  /\ UNCHANGED <<others, cfg, now, req, dirs, fetched, fetches, chunks, chunkPaths,
                 reply>>

\* zipWriter.Close() after the archive loop, and the result
CloseZipWithGo ==
  /\ pc = "addzip"
  /\ loc.j >= Len(chunkPaths)
  /\ \E ok \in BOOLEAN :
       IF ok
       THEN /\ files' = WriteFile(files, loc.zipFileName,
                          ZipFile(files[loc.zipFileName].entries, TRUE))
            /\ ret' = Success(loc, loc.zipFileName, images)
       ELSE /\ files' = files
            /\ ret' = ErrReturn("failed to close zip writer")
  /\ pc' = "returned"
  /\ UNCHANGED <<others, cfg, now, req, dirs, fetched, fetches, loc, chunks,
                 chunkPaths, images, reply>>

\* processImageWithCLI after the loop: zip -j zipFileName chunkPaths...
\* zip has nothing to do, and exits non-zero, when no file is named
ZipWithCLI ==
  /\ pc = "render"
  /\ cfg.useCLI
  /\ loc.i >= loc.splitCount
  /\ LET zipFileName == Join(loc.outputDir, ZipFileName(req.prefix)) IN
     \E ok \in BOOLEAN :
       /\ ok => chunkPaths # <<>>
       /\ images' = RelPaths(chunkPaths)
       /\ loc' = [loc EXCEPT !.zipFileName = zipFileName]
       /\ IF ok
          THEN /\ files' = WriteFile(files, zipFileName,
                             ZipFile([k \in 1..Len(chunkPaths) |->
                                        Base(chunkPaths[k])], TRUE))
               /\ ret' = Success(loc, zipFileName, RelPaths(chunkPaths))
          ELSE /\ files' = files
               /\ ret' = ErrReturn("failed to create zip file")
  /\ pc' = "returned"
  /\ UNCHANGED <<others, cfg, now, req, dirs, fetched, fetches, chunks, chunkPaths,
                 reply>>

----------------------------------------------------------------------------
(* handleSplitImage after ProcessImage returned *)

\* apiResponse(w, http.StatusOK, result)
ResultReply(result) == [code |-> 200, error |-> "", body |-> result]

Reply ==
  /\ pc = "returned"
  /\ reply' = IF ret.err # "" THEN ErrorReply(500, ret.err)
              ELSE ResultReply(ret.result)
  /\ pc' = "replied"
  /\ UNCHANGED <<others, cfg, now, req, dirs, files, fetched, fetches, loc, chunks,
                 chunkPaths, images, ret>>

Next ==
  \/ HandleSplitImage
  \/ MkdirAll
  \/ DownloadImage
  \/ DownloadImageWithCurl
  \/ ProbeWithGo
  \/ ProbeWithCLI
  \/ RenderChunkWithGo
  \/ RenderChunkWithCLI
  \/ CreateZipWithGo
  \/ AddFileToZip
  \/ CloseZipWithGo
  \/ ZipWithCLI
  \/ Reply

Spec == Init /\ [][Next]_vars

\* a server started with -username and -password, one request
AuthInit ==
  /\ InitPipeline
  /\ AuthEnabled
  /\ auth = NoAuth
  /\ runs = [r \in RunIds |-> NoRun]
  /\ InitServe
  /\ InitPure

AuthNext == BasicAuth \/ Next

AuthSpec == AuthInit /\ [][AuthNext]_vars

----------------------------------------------------------------------------
(* The parse of vipsheader's output in processImageWithCLI, on its own: the *)
(* output is drawn from texts of the shape "f: <w>x<h> uchar" over a set of *)
(* tokens, and from texts without that shape.                               *)

\* the tokens put in the place of a dimension
DimensionTokens ==
  {<<>>, <<"3">>, <<"1", "2">>, <<"0", "0", "7">>, <<"-", "5">>,
   <<"+", "4">>, <<"a">>, <<"3", "a">>, <<"1", ".", "5">>}

\* "f: <w>x<h> uchar\n"
ShapedHeader(w, h) ==
  <<"f", ":", " ">> \o w \o <<"x">> \o h
    \o <<" ", "u", "c", "h", "a", "r", "\n">>

\* the outputs of vipsheader the parse is tried on
VipsOutputs ==
  {[text |-> ShapedHeader(w, h), shaped |-> TRUE, w |-> w, h |-> h] :
     w \in DimensionTokens, h \in DimensionTokens}
  \cup
  {[text |-> t, shaped |-> FALSE, w |-> <<>>, h |-> <<>>] :
     t \in MalformedHeaders}

\* processImageWithCLI from the parse of the output to splitCount
ParseAndPlan ==
  /\ ~probed.done
  /\ LET dims == ParseVipsHeader(vipsOutput.text) IN
     probed' =
       IF dims.err # ""
       THEN [done |-> TRUE, err |-> dims.err, width |-> 0, height |-> 0,
             planned |-> FALSE, splitCount |-> 0]
       ELSE [done |-> TRUE, err |-> "", width |-> dims.width,
             height |-> dims.height, planned |-> TRUE,
             splitCount |-> SplitCountCLI(dims.height, cfg.maxHeight, 0)]
  /\ UNCHANGED <<pipelineVars, runs, serveVars, auth, vipsOutput, imageDims,
                 planned>>

ParseInit ==
  /\ InitPipeline
  /\ cfg.maxHeight # 0 /\ cfg.useCLI
  /\ cfg.username = "" /\ cfg.password = ""
  /\ auth = NoAuth
  /\ runs = [r \in RunIds |-> NoRun]
  /\ InitServe
  /\ vipsOutput \in VipsOutputs
  /\ probed = NotProbed
  /\ imageDims = [width |-> 0, height |-> 0]
  /\ planned = NotPlanned

ParseNext == ParseAndPlan

ParseSpec == ParseInit /\ [][ParseNext]_vars

----------------------------------------------------------------------------
(* The plans of the two strategies for the same image, request and         *)
(* MaxHeight: each strategy function from its dimensions to the chunks of  *)
(* its loop, without the file system.                                      *)

\* the largest image width and height handed to the planners
MaxPlanW == 4
MaxPlanH == 9

\* the requests that reach ProcessImage, with one url
PlanRequests ==
  {r \in Requests : Rejection(r) = "" /\ r.url = <<"a", ".", "j", "p", "g">>
                      /\ ~r.createZip}

\* both strategy functions from the dimensions to the chunks of the loop
PlanBoth ==
  /\ ~planned.done
  /\ LET lGo == PlannedGo(loc, imageDims.width, imageDims.height)
         lCLI == PlannedCLI(loc, imageDims.width, imageDims.height)
     IN planned' =
          [done |-> TRUE,
           splitCountGo |-> lGo.splitCount,
           splitCountCLI |-> lCLI.splitCount,
           chunksGo |-> [k \in 1..lGo.splitCount |-> ChunkGo(lGo, k - 1)],
           chunksCLI |-> [k \in 1..lCLI.splitCount |-> ChunkCLI(lCLI, k - 1)]]
  /\ UNCHANGED <<pipelineVars, runs, serveVars, auth, vipsOutput, probed,
                 imageDims>>

PlanInit ==
  /\ cfg \in Configs
  /\ cfg.maxHeight # 0 /\ ~cfg.useCLI
  /\ cfg.username = "" /\ cfg.password = ""
  /\ now = 17
  /\ pc = "render"
  /\ req \in PlanRequests
  /\ dirs = {}
  /\ files = << >>
  /\ fetched = NotFetched
  /\ fetches = 0
  /\ loc = NoLocals
  /\ chunks = <<>>
  /\ chunkPaths = <<>>
  /\ images = <<>>
  /\ ret = [result |-> EmptyResponse, err |-> ""]
  /\ reply = NoReply
  /\ auth = NoAuth
  /\ runs = [r \in RunIds |-> NoRun]
  /\ InitServe
  /\ vipsOutput = NoOutput
  /\ probed = NotProbed
  /\ imageDims \in [width : 1..MaxPlanW, height : 0..MaxPlanH]
  /\ planned = NotPlanned

PlanNext == PlanBoth

PlanSpec == PlanInit /\ [][PlanNext]_vars

----------------------------------------------------------------------------
(* Two requests served side by side.  net/http runs each handler in its own *)
(* goroutine; the runs share the clock and the storage root.  Each run is   *)
(* followed through the steps of ProcessImage that name or write a file.    *)

\* the clock is followed up to this second
MaxNow == 18
\* the largest number of chunks a run of the pair renders
MaxRunChunks == 2

\* the images_prefix values handleSplitImage lets through
ValidPrefixes == {q \in Prefixes : ContainsOnlyAllowedChars(q, AllowedChars)}

\* runs with the locals of run r replaced
SetRun(r, l) == [runs EXCEPT ![r] = l]

\* the run r after it wrote the file at path
Wrote(r, path) == [runs[r] EXCEPT !.written = @ \cup {path}]

\* a second of wall-clock time passes
ClockTick ==
  /\ now < MaxNow
  /\ now' = now + 1
  /\ UNCHANGED <<serveVars, auth, pureVars, cfg, pc, req, dirs, files, fetched, fetches, loc,
                 chunks, chunkPaths, images, ret, reply, runs>>

\* handleSplitImage of run r, for a request that passes its checks
RunHandleSplitImage(r) ==
  /\ runs[r].pc = "idle"
  /\ \E url \in Urls \ {<<>>}, prefix \in ValidPrefixes, n \in 1..MaxRunChunks :
       runs' = SetRun(r, [runs[r] EXCEPT !.pc = "mkdir",
                            !.imageURL = cfg.urlHost \o url,
                            !.imagesPrefix = prefix, !.splitCount = n])
  /\ UNCHANGED <<serveVars, auth, pureVars, cfg, now, pc, req, dirs, files, fetched, fetches, loc, chunks,
                 chunkPaths, images, ret, reply>>

\* ProcessImage of run r: timestamp, outputDir, os.MkdirAll, which succeeds
\* on a directory that exists already
RunMkdirAll(r) ==
  /\ runs[r].pc = "mkdir"
  /\ \E ok \in BOOLEAN :
       IF ok
       THEN /\ dirs' = dirs \cup {OutputDir(cfg.filePath, now)}
            /\ runs' = SetRun(r, [runs[r] EXCEPT !.pc = "download",
                                    !.outputDir = OutputDir(cfg.filePath, now)])
       ELSE /\ dirs' = dirs
            /\ runs' = SetRun(r, [runs[r] EXCEPT !.pc = "returned"])
  /\ UNCHANGED <<serveVars, auth, pureVars, cfg, now, pc, req, files, fetched, fetches, loc, chunks,
                 chunkPaths, images, ret, reply>>

\* ProcessImage of run r: tempImagePath and the download, which creates or
\* truncates the file at tempImagePath
RunDownload(r) ==
  /\ runs[r].pc = "download"
  /\ LET tempImagePath ==
           Join(runs[r].outputDir, TempImageName(runs[r].imageURL)) IN
     \E ok \in BOOLEAN :
       IF ok
       THEN /\ files' = WriteFile(files, tempImagePath,
                          File("image", MaxW, runs[r].splitCount, 0, 0))
            /\ runs' = SetRun(r, [Wrote(r, tempImagePath) EXCEPT !.pc = "render"])
       ELSE /\ files' = files
            /\ runs' = SetRun(r, [runs[r] EXCEPT !.pc = "returned"])
  /\ UNCHANGED <<serveVars, auth, pureVars, cfg, now, pc, req, dirs, fetched, fetches, loc, chunks,
                 chunkPaths, images, ret, reply>>

\* one iteration of the chunk loop of run r: outputPath and the write
RunRenderChunk(r) ==
  /\ runs[r].pc = "render"
  /\ runs[r].i < runs[r].splitCount
  /\ LET fileNumber == runs[r].i + 1
         outputPath ==
           Join(runs[r].outputDir,
                IF cfg.useCLI
                THEN ChunkFileNameCLI(runs[r].imagesPrefix, fileNumber)
                ELSE ChunkFileNameGo(runs[r].imagesPrefix, fileNumber))
     IN
     \E ok \in BOOLEAN :
       IF ok
       THEN /\ files' = WriteFile(files, outputPath,
                          File("chunk", MaxW, 1, 0, runs[r].i))
            /\ runs' = SetRun(r, [Wrote(r, outputPath) EXCEPT !.i = fileNumber])
       ELSE /\ files' = files
            /\ runs' = SetRun(r, [runs[r] EXCEPT !.pc = "returned"])
  /\ UNCHANGED <<serveVars, auth, pureVars, cfg, now, pc, req, dirs, fetched, fetches, loc, chunks,
                 chunkPaths, images, ret, reply>>

\* the archive step of run r: zipFileName and the archive of its chunks
RunArchive(r) ==
  /\ runs[r].pc = "render"
  /\ runs[r].i >= runs[r].splitCount
  /\ LET zipFileName ==
           Join(runs[r].outputDir, ZipFileName(runs[r].imagesPrefix))
         names ==
           [k \in 1..runs[r].splitCount |->
              IF cfg.useCLI THEN ChunkFileNameCLI(runs[r].imagesPrefix, k)
              ELSE ChunkFileNameGo(runs[r].imagesPrefix, k)]
     IN
     \E ok \in BOOLEAN :
       IF ok
       THEN /\ files' = WriteFile(files, zipFileName, ZipFile(names, TRUE))
            /\ runs' = SetRun(r, [Wrote(r, zipFileName) EXCEPT !.pc = "returned"])
       ELSE /\ files' = files
            /\ runs' = SetRun(r, [runs[r] EXCEPT !.pc = "returned"])
  /\ UNCHANGED <<serveVars, auth, pureVars, cfg, now, pc, req, dirs, fetched, fetches, loc, chunks,
                 chunkPaths, images, ret, reply>>

RunsInit ==
  /\ InitPipeline
  /\ cfg.maxHeight = DefaultMaxHeight
  /\ cfg.username = "" /\ cfg.password = ""
  /\ auth = NoAuth
  /\ runs = [r \in RunIds |-> NoRun]
  /\ InitServe
  /\ InitPure

RunsNext ==
  \/ ClockTick
  \/ \E r \in RunIds : RunHandleSplitImage(r)
  \/ \E r \in RunIds : RunMkdirAll(r)
  \/ \E r \in RunIds : RunDownload(r)
  \/ \E r \in RunIds : RunRenderChunk(r)
  \/ \E r \in RunIds : RunArchive(r)

RunsSpec == RunsInit /\ [][RunsNext]_vars

----------------------------------------------------------------------------
(* serve: the main flow in srv.ListenAndServe and then on shutdownError,    *)
(* the goroutine that waits for a signal and calls srv.Shutdown.  The       *)
(* handlers are counted, not followed.  shutdownError is unbuffered: a send *)
(* and the receive happen in one step.                                      *)

\* context.WithTimeout(context.Background(), 30*time.Second)
ShutdownTimeout == 30
\* the largest number of handlers executing at once
MaxInFlight == 2

\* ctx.Err() once the deadline has passed
DeadlineExceeded == "context deadline exceeded"

\* SIGINT or SIGTERM arrives: signal.Notify puts it into quit
Signal ==
  /\ gpc = "quit" /\ ~quit
  /\ quit' = TRUE
  /\ UNCHANGED <<pipelineVars, auth, pureVars, runs, gpc, mpc, listening, inFlight, elapsed,
                 shutdownErr, received, wgCounter, serveRet>>

\* the server accepts a request and starts its handler
ServeRequest ==
  /\ listening /\ mpc = "listen"
  /\ inFlight < MaxInFlight
  /\ inFlight' = inFlight + 1
  /\ UNCHANGED <<pipelineVars, auth, pureVars, runs, quit, gpc, mpc, listening, elapsed,
                 shutdownErr, received, wgCounter, serveRet>>

\* a handler returns
HandlerReturns ==
  /\ inFlight > 0
  /\ inFlight' = inFlight - 1
  /\ UNCHANGED <<pipelineVars, auth, pureVars, runs, quit, gpc, mpc, listening, elapsed,
                 shutdownErr, received, wgCounter, serveRet>>

\* s := <-quit, the context, and the start of srv.Shutdown(ctx), which
\* closes the listener before it waits
CatchSignal ==
  /\ gpc = "quit" /\ quit
  /\ quit' = FALSE
  /\ gpc' = "shutdown"
  /\ listening' = FALSE
  /\ elapsed' = 0
  /\ UNCHANGED <<pipelineVars, auth, pureVars, runs, mpc, inFlight, shutdownErr, received,
                 wgCounter, serveRet>>

\* a second of the grace period passes while srv.Shutdown waits
ShutdownTick ==
  /\ gpc = "shutdown"
  /\ elapsed < ShutdownTimeout
  /\ elapsed' = elapsed + 1
  /\ UNCHANGED <<pipelineVars, auth, pureVars, runs, quit, gpc, mpc, listening, inFlight,
                 shutdownErr, received, wgCounter, serveRet>>

\* srv.Shutdown waiting without a look at the handlers
ShutdownReturnsAtOnce ==
  /\ gpc = "shutdown"
  /\ shutdownErr' = ""
  /\ gpc' = "wait"
  /\ UNCHANGED <<pipelineVars, auth, pureVars, runs, quit, mpc, listening, inFlight, elapsed,
                 received, wgCounter, serveRet>>

\* err := srv.Shutdown(ctx) returns: nil (or the error of closing the
\* listener) once no handler executes, ctx.Err() once the deadline passed
ShutdownReturns ==
  /\ gpc = "shutdown"
  /\ \E e \in {"", "close error", DeadlineExceeded} :
       /\ e \in {"", "close error"} => inFlight = 0
       /\ e = DeadlineExceeded => elapsed = ShutdownTimeout
       /\ shutdownErr' = e
       /\ gpc' = IF e # "" THEN "sendErr" ELSE "wait"
  /\ UNCHANGED <<pipelineVars, auth, pureVars, runs, quit, mpc, listening, inFlight, elapsed,
                 received, wgCounter, serveRet>>

\* srv.ListenAndServe returns http.ErrServerClosed once Shutdown was called
ListenAndServeReturns ==
  /\ mpc = "listen" /\ ~listening
  /\ mpc' = "receive"
  /\ UNCHANGED <<pipelineVars, auth, pureVars, runs, quit, gpc, listening, inFlight, elapsed,
                 shutdownErr, received, wgCounter, serveRet>>

\* srv.ListenAndServe returns another error, and serve returns it
ListenAndServeFails ==
  /\ mpc = "listen" /\ listening
  /\ mpc' = "returned"
  /\ serveRet' = "listen error"
  /\ listening' = FALSE
  /\ UNCHANGED <<pipelineVars, auth, pureVars, runs, quit, gpc, inFlight, elapsed,
                 shutdownErr, received, wgCounter>>

\* shutdownError <- err meets err = <-shutdownError: serve returns err
SendErr ==
  /\ gpc = "sendErr" /\ mpc = "receive"
  /\ received' = Append(received, shutdownErr)
  /\ serveRet' = shutdownErr
  /\ mpc' = "returned"
  /\ gpc' = "wait"
  /\ UNCHANGED <<pipelineVars, auth, pureVars, runs, quit, listening, inFlight, elapsed,
                 shutdownErr, wgCounter>>

\* wg.Wait() returns when the counter is zero; nothing ever calls wg.Add
WgWait ==
  /\ gpc = "wait"
  /\ wgCounter = 0
  /\ gpc' = "sendNil"
  /\ UNCHANGED <<pipelineVars, auth, pureVars, runs, quit, mpc, listening, inFlight, elapsed,
                 shutdownErr, received, wgCounter, serveRet>>

\* SendNil on a channel with a buffer: the send needs no receiver
SendNilBuffered ==
  /\ gpc = "sendNil"
  /\ gpc' = "done"
  /\ UNCHANGED <<pipelineVars, auth, pureVars, runs, quit, mpc, listening,
                 inFlight, elapsed, shutdownErr, received, wgCounter, serveRet>>

\* shutdownError <- nil meets err = <-shutdownError: serve returns nil
SendNil ==
  /\ gpc = "sendNil" /\ mpc = "receive"
  /\ received' = Append(received, "nil")
  /\ serveRet' = "nil"
  /\ mpc' = "returned"
  /\ gpc' = "done"
  /\ UNCHANGED <<pipelineVars, auth, pureVars, runs, quit, listening, inFlight, elapsed,
                 shutdownErr, wgCounter>>

ServeInit ==
  /\ InitPipeline
  /\ cfg.maxHeight = DefaultMaxHeight /\ ~cfg.useCLI
  /\ cfg.username = "" /\ cfg.password = ""
  /\ auth = NoAuth
  /\ runs = [r \in RunIds |-> NoRun]
  /\ InitServe
  /\ InitPure

ServeNext ==
  \/ Signal
  \/ ServeRequest
  \/ HandlerReturns
  \/ CatchSignal
  \/ ShutdownTick
  \/ ShutdownReturns
  \/ ListenAndServeReturns
  \/ ListenAndServeFails
  \/ SendErr
  \/ WgWait
  \/ SendNil

\* a goroutine that can run does run, and the timer of the context fires
ServeFairness ==
  /\ WF_vars(CatchSignal) /\ WF_vars(ShutdownTick) /\ WF_vars(ShutdownReturns)
  /\ WF_vars(ListenAndServeReturns)
  /\ WF_vars(SendErr) /\ WF_vars(WgWait) /\ WF_vars(SendNil)

ServeSpec == ServeInit /\ [][ServeNext]_vars /\ ServeFairness

----------------------------------------------------------------------------
(* Properties.  A run has planned once its probe set totalHeight; the      *)
(* images served have a height >= 1, so totalHeight = 0 means "not yet".   *)

\* the plan as a sequence of chunks
PlanSeq == SubSeq(Plan(loc), 1, loc.splitCount)

\* ProcessImage was called and has returned
Returned == pc = "returned" \/ (pc = "replied" /\ reply.code \in {200, 500})

\* the run got past its chunk loop
LoopDone == pc = "addzip" \/ (Returned /\ ret.err = "")

\* max_images is 0 or not smaller than ceil(height / MaxHeight)
NoTruncation ==
  req.maxImages = 0 \/ req.maxImages * cfg.maxHeight >= loc.totalHeight

\* n = ceil(h / m) for m >= 1: the least n with n * m >= h
IsCeil(n, h, m) == n * m >= h /\ (n - 1) * m < h

\* C1: with height >= 1, MaxHeight >= 1 and no truncation by max_images,
\* either strategy plans exactly ceil(height / MaxHeight) chunks, which is
\* (height + MaxHeight - 1) / MaxHeight in integers; 12000 over 5000 is 3.
C1_ChunkCountIsCeiling ==
  (loc.totalHeight >= 1 /\ cfg.maxHeight >= 1 /\ NoTruncation) =>
     /\ IsCeil(loc.splitCount, loc.totalHeight, cfg.maxHeight)
     /\ loc.splitCount
          = (loc.totalHeight + cfg.maxHeight - 1) \div cfg.maxHeight
     /\ Len(PlanSeq) = loc.splitCount
     /\ Len(chunks) = loc.i /\ loc.i <= loc.splitCount
     /\ (LoopDone => Len(chunks) = loc.splitCount)
     /\ (loc.totalHeight = 12000 /\ cfg.maxHeight = 5000
           => loc.splitCount = 3)

\* a run of the in-process strategy answered with the 3 chunks of 12000 / 5000
C1_Witness ==
  /\ pc = "replied" /\ reply.code = 200 /\ ~cfg.useCLI
  /\ loc.totalHeight = 12000 /\ cfg.maxHeight = 5000 /\ req.maxImages = 0
  /\ Len(reply.body.images) = 3

\* C2: with height >= 1, MaxHeight >= 1 and no truncation, the planned chunks
\* in index order tile [0, height): the first starts at 0, each later one
\* starts where the previous one ends, the last ends at height; every row
\* lies in exactly one chunk (counted row by row for the images of at most
\* MaxChunks rows).
C2_ChunksTileImage ==
  (loc.totalHeight >= 1 /\ cfg.maxHeight >= 1 /\ NoTruncation) =>
     LET p == PlanSeq
         n == Len(p)
     IN /\ n >= 1
        /\ p[1].startY = 0
        /\ \A k \in 2..n : p[k].startY = p[k - 1].endY
        /\ p[n].endY = loc.totalHeight
        /\ \A k \in 1..n : p[k].startY < p[k].endY
        /\ chunks = SubSeq(p, 1, loc.i)
        /\ (LoopDone => chunks = p)
        /\ (loc.totalHeight <= MaxChunks =>
              \A y \in 0..(loc.totalHeight - 1) :
                Cardinality({k \in 1..n :
                               p[k].startY <= y /\ y < p[k].endY}) = 1)

\* a run of the external-tool strategy rendered the two chunks of a
\* 3-row image cut every 2 rows: [0,2) and the shorter [2,3)
C2_Witness ==
  /\ pc = "replied" /\ reply.code = 200 /\ cfg.useCLI
  /\ loc.totalHeight = 3 /\ cfg.maxHeight = 2 /\ req.maxImages = 0
  /\ Len(chunks) = 2 /\ chunks[2].startY = 2 /\ chunks[2].endY = 3

MinInt(a, b) == IF a < b THEN a ELSE b

\* the bounds of one chunk, as C3 states them
ChunkInBounds(c) ==
  /\ 0 <= c.startY /\ c.startY < c.endY /\ c.endY <= loc.totalHeight
  /\ c.endY = MinInt(c.startY + cfg.maxHeight, loc.totalHeight)
  /\ c.endY - c.startY <= cfg.maxHeight

\* C3: every chunk a run plans, truncated or not, has
\* 0 <= startY < endY <= height and endY = min(startY + MaxHeight, height):
\* none is taller than MaxHeight and none is empty.
C3_EveryChunkInBounds ==
  /\ \A k \in 1..Len(PlanSeq) : ChunkInBounds(PlanSeq[k])
  /\ \A k \in 1..Len(chunks) : ChunkInBounds(chunks[k])

\* max_images > 0 and smaller than ceil(height / MaxHeight); with
\* MaxHeight < 0 the quotient is not positive and no max_images > 0 is smaller
Truncated ==
  /\ req.maxImages > 0 /\ cfg.maxHeight >= 1 /\ loc.totalHeight >= 1
  /\ req.maxImages * cfg.maxHeight < loc.totalHeight

\* the messages of the errors of the chunk loop and of the archive step
RenderAndArchiveErrors ==
  {"failed to create output file", "failed to save split image",
   "failed to split image", "failed to create zip file",
   "failed to add file to zip", "failed to close zip writer"}

\* C4: when max_images > 0 is smaller than ceil(height / MaxHeight), the run
\* plans exactly max_images chunks, chunk i covering
\* [(i-1)*MaxHeight, i*MaxHeight); the rows from max_images*MaxHeight on (no
\* chunk ends below that row, the last row of the image is in none) are in
\* no chunk; the truncation is no error: the run fails only where a render
\* or archive step fails, and otherwise answers success with max_images paths.
C4_TruncationKeepsTopChunks ==
  Truncated =>
     LET p == PlanSeq IN
     /\ loc.splitCount = req.maxImages
     /\ Len(p) = req.maxImages
     /\ \A k \in 1..Len(p) :
          /\ p[k].startY = (k - 1) * cfg.maxHeight
          /\ p[k].endY = k * cfg.maxHeight
          /\ p[k].endY <= req.maxImages * cfg.maxHeight
     /\ req.maxImages * cfg.maxHeight < loc.totalHeight
     /\ ~\E k \in 1..Len(p) :
           LET y == loc.totalHeight - 1 IN p[k].startY <= y /\ y < p[k].endY
     /\ chunks = SubSeq(p, 1, loc.i)
     /\ (LoopDone => chunks = p)
     /\ ret.err \in {""} \cup RenderAndArchiveErrors
     /\ (Returned /\ ret.err = "" =>
           /\ ret.result.status = "success"
           /\ ret.result.parts = req.maxImages
           /\ Len(ret.result.images) = req.maxImages)
     /\ (pc = "replied" => (reply.code = 200 <=> ret.err = ""))

\* 12000 rows, MaxHeight 5000, max_images 2: answered with [0,5000) and
\* [5000,10000), the rows from 10000 on dropped
C4_Witness ==
  /\ pc = "replied" /\ reply.code = 200
  /\ loc.totalHeight = 12000 /\ cfg.maxHeight = 5000 /\ req.maxImages = 2
  /\ Len(reply.body.images) = 2
  /\ Len(chunks) = 2 /\ chunks[2].startY = 5000 /\ chunks[2].endY = 10000

\* s is the decimal numeral of n with one leading zero exactly when n < 10
IsPaddedNumeral(s, n) ==
  /\ s # <<>>
  /\ \A k \in 1..Len(s) : s[k] \in Range(DigitChars)
  /\ DigitsValue(s) = n
  /\ (n < 10 => Len(s) = 2 /\ s[1] = "0")
  /\ (n >= 10 => s[1] # "0")

\* name is <prefix>_<s>.jpg with s the padded numeral of n
IsChunkName(name, prefix, n) ==
  /\ Len(name) >= Len(prefix) + 6
  /\ SubSeq(name, 1, Len(prefix)) = prefix
  /\ name[Len(prefix) + 1] = "_"
  /\ SubSeq(name, Len(name) - 3, Len(name)) = DotJpg
  /\ IsPaddedNumeral(SubSeq(name, Len(prefix) + 2, Len(name) - 4), n)

\* the chunk c, the k-th of its run, has the path and name C5 gives it
ChunkNamedByIndex(c, k) ==
  /\ c.index = k
  /\ Len(c.path) = Len(loc.outputDir) + 1
  /\ SubSeq(c.path, 1, Len(loc.outputDir)) = loc.outputDir
  /\ IsChunkName(Base(c.path), req.prefix, k)

\* C5: the i-th chunk of a run (i = 1..N, dense, top to bottom) is written to
\* <working directory>/<prefix>_<s>.jpg, s the decimal index with a leading
\* zero exactly when i < 10 (01..09, 10, 11, ..., 100, 101, ...), in both
\* strategies.
C5_ChunkFileNames ==
  /\ LET p == PlanSeq IN \A k \in 1..Len(p) : ChunkNamedByIndex(p[k], k)
  /\ \A k \in 1..Len(chunks) :
       /\ ChunkNamedByIndex(chunks[k], k)
       /\ chunks[k].path \in DOMAIN files
       /\ chunkPaths[k] = chunks[k].path
  /\ (pc = "idle" =>
        \A n \in 1..MaxFileNumber :
        \A pre \in {q \in Prefixes : ContainsOnlyAllowedChars(q, AllowedChars)} :
          /\ IsChunkName(ChunkFileNameGo(pre, n), pre, n)
          /\ IsChunkName(ChunkFileNameCLI(pre, n), pre, n))

\* a run wrote twelve chunks: the ninth is p_1_09.jpg, the twelfth p_1_12.jpg
C5_Witness ==
  /\ pc = "replied" /\ reply.code = 200 /\ cfg.useCLI
  /\ Len(chunks) = 12
  /\ Base(chunks[9].path)
       = <<"p", "_", "1", "_", "0", "9", ".", "j", "p", "g">>
  /\ Base(chunks[12].path)
       = <<"p", "_", "1", "_", "1", "2", ".", "j", "p", "g">>
  /\ chunks[12].path \in DOMAIN files

\* the width of the image in the downloaded source file
SourceWidth == files[loc.tempImagePath].w

\* the chunk c has the width and the x-offset C6 gives it
ChunkWidthAsRequested(c) ==
  /\ c.xOffset = 0
  /\ c.outWidth = IF req.width > 0 /\ req.width < SourceWidth
                  THEN req.width ELSE SourceWidth
  /\ (c.path \in DOMAIN files /\ files[c.path].kind = "chunk" =>
        files[c.path].w = c.outWidth /\ files[c.path].x = 0)

ArchivePath == Join(OutputDir(cfg.filePath, now), ZipFileName(req.prefix))

\* C7: the archive step runs only on request: with create_zip false the run
\* creates no archive file and its result has an empty zipUrl; with
\* create_zip true it archives all rendered chunks and returns the path.
C7_ArchiveOnlyOnRequest ==
  /\ (~req.createZip => ArchivePath \notin DOMAIN files)
  /\ (Returned /\ ret.err = "" =>
        IF req.createZip
        THEN /\ ret.result.zipUrl = Rel(cfg.filePath, ArchivePath)
             /\ ArchivePath \in DOMAIN files
             /\ files[ArchivePath].entries
                  = [k \in 1..Len(chunkPaths) |-> Base(chunkPaths[k])]
        ELSE ret.result.zipUrl = <<>>)

\* C8: a run is all-or-nothing towards the caller: with an error ProcessImage
\* returns the empty response and the handler sends the error message alone;
\* without one the response has status "success" and lists every planned
\* chunk; no response carries an error together with chunk or archive paths.
C8_AllOrNothingResult ==
  /\ (~Returned => ret = [result |-> EmptyResponse, err |-> ""])
  /\ (Returned =>
        /\ (ret.err # "" => ret.result = EmptyResponse)
        /\ (ret.err = "" =>
              /\ ret.result.status = "success"
              /\ Len(ret.result.images) = Len(PlanSeq)
              /\ \A k \in 1..Len(PlanSeq) :
                   ret.result.images[k] = Rel(cfg.filePath, PlanSeq[k].path)))
  /\ (pc = "replied" =>
        /\ reply.code # 0
        /\ (reply.code = 200 <=> reply.error = "")
        /\ (reply.code = 200 => /\ reply.body = ret.result
                                 /\ reply.body.status = "success"
                                 /\ Len(reply.body.images) = Len(PlanSeq))
        /\ (ret.err # "" => reply = ErrorReply(500, ret.err)))
  /\ (reply.error # "" => reply.body = EmptyResponse)

\* a run failed after it had rendered chunks, and the handler sent the error
\* message with no status, no zipUrl and no image
C8_Witness ==
  /\ pc = "replied" /\ reply.code = 500
  /\ reply.error = "failed to add file to zip"
  /\ Len(chunks) >= 2
  /\ reply.body = EmptyResponse /\ ret.result = EmptyResponse

\* the fetch went wrong in the sense of C9
FetchWentWrong ==
  IF cfg.useCLI
  THEN fetched.outcome \in {"exit", "missing", "emptyfile"}
  ELSE \/ fetched.outcome \in {"transport", "copy"}
       \/ (fetched.status # 0 /\ fetched.status \notin 200..299)

\* C9: the fetch fails with a fetch error, and the run stops before the
\* probe, whenever the response is not 2xx or the transfer fails (in-process)
\* and whenever curl exits non-zero or leaves an empty or missing file
\* (external tool); the fetch is attempted once.
C9_FetchFailureStopsRun ==
  /\ fetches <= 1
  /\ (fetches = 1 /\ FetchWentWrong =>
        /\ Returned
        /\ ret.err \in FetchErrors
        /\ loc.totalHeight = 0 /\ chunks = <<>>)

\* the fields of the request fail the validation of C10
InvalidFields(r) ==
  \/ r.url = <<>>
  \/ \E k \in 1..Len(r.prefix) : r.prefix[k] \notin AllowedChars
  \/ r.maxImages < 0

\* no step of the pipeline has run
PipelineNotStarted ==
  /\ dirs = {} /\ files = << >> /\ fetches = 0
  /\ loc = NoLocals /\ chunks = <<>> /\ ret = [result |-> EmptyResponse, err |-> ""]

\* C10 as stated: every request with an empty url, a prefix with a character
\* outside letters, digits and underscore, or a negative max_images is
\* answered 400 and starts no pipeline.
C10_AsStated ==
  (pc # "idle" /\ InvalidFields(req)) =>
     /\ pc = "replied" /\ reply.code = 400
     /\ PipelineNotStarted

\* C10 as amended: every such request is answered with an error and starts
\* no pipeline; the error is 400 for a POST request, and 405 for any other
\* method, which the handler rejects before it reads the body.
C10_InvalidRequestRejected ==
  (pc # "idle" /\ InvalidFields(req)) =>
     /\ pc = "replied"
     /\ reply.error # ""
     /\ reply.code = IF req.method = "POST" THEN 400 ELSE 405
     /\ PipelineNotStarted

\* a POST request with a url, a valid prefix and max_images -1 was
\* answered 400 without a working directory
C10_Witness ==
  /\ pc = "replied" /\ req.method = "POST" /\ req.jsonOk
  /\ req.url # <<>> /\ req.maxImages < 0
  /\ ContainsOnlyAllowedChars(req.prefix, AllowedChars)
  /\ reply.code = 400 /\ dirs = {}

\* the names a run with an empty prefix gives its first chunk and its archive
EmptyPrefixNames == {<<"_", "0", "1">> \o DotJpg, DotZip}

\* C11: images_prefix is required: a request with an empty (or absent)
\* images_prefix is rejected with an error before the pipeline starts, so no
\* file named "_01.jpg" or ".zip" is ever written.
C11_EmptyPrefixRejected ==
  /\ (pc # "idle" /\ req.prefix = <<>> =>
        pc = "replied" /\ reply.error # "" /\ PipelineNotStarted)
  /\ \A p \in DOMAIN files : Base(p) \notin EmptyPrefixNames

\* the messages of the errors of the probe step
ProbeErrors ==
  {"failed to open image file", "failed to decode image",
   "failed to get image dimensions",
   "unexpected output format from vipsheader",
   "unexpected dimension format from vipsheader",
   "failed to parse image width", "failed to parse image height"}

\* the messages of the errors of the chunk loop
RenderErrors ==
  {"failed to create output file", "failed to save split image",
   "failed to split image"}

\* the messages of the errors of the archive step
ArchiveErrors ==
  {"failed to create zip file", "failed to add file to zip",
   "failed to close zip writer"}

\* the run failed in its chunk loop ("failed to create output file" is also
\* the message of a download that could not create the source file)
RenderFailed == ret.err \in RenderErrors /\ fetched.outcome # "create"

\* where a failed run stands: what it left and what it never did
C12_FailedRunState ==
  /\ (ret.err \in ProbeErrors =>
        /\ chunks = <<>> /\ loc.splitCount = 0
        /\ DOMAIN files = {loc.tempImagePath})
  /\ (RenderFailed =>
        LET k == Len(chunks) + 1 IN
        /\ k <= Len(PlanSeq)
        /\ \A j \in (k + 1)..Len(PlanSeq) : PlanSeq[j].path \notin DOMAIN files
        /\ \A j \in 1..(k - 1) :
             /\ PlanSeq[j].path \in DOMAIN files
             /\ files[PlanSeq[j].path].kind = "chunk"
        /\ loc.tempImagePath \in DOMAIN files
        /\ loc.zipFileName = <<>> /\ ArchivePath \notin DOMAIN files
        /\ images = <<>>)
  /\ (ret.err \in ArchiveErrors =>
        /\ ret.result = EmptyResponse
        /\ (pc = "replied" => reply.body = EmptyResponse)
        /\ loc.tempImagePath \in DOMAIN files
        /\ \A j \in 1..Len(PlanSeq) :
             /\ PlanSeq[j].path \in DOMAIN files
             /\ files[PlanSeq[j].path].kind = "chunk")

\* what every step keeps: no file is removed, a source or chunk file keeps
\* its content, and after an error nothing of the run changes any more
C12_Step ==
  /\ \A p \in DOMAIN files :
       /\ p \in DOMAIN files'
       /\ (files[p].kind # "zip" => files'[p] = files[p])
  /\ (ret.err # "" =>
        UNCHANGED <<dirs, files, fetched, fetches, loc, chunks, chunkPaths,
                    images, ret>>)

\* C12: a failure at a step ends the run at that step: after a render failure
\* on chunk k no chunk above k is on disk and no archive was started, after a
\* probe failure nothing is rendered, after an archive failure no result is
\* assembled; the source file and the chunks written before the failure stay
\* on disk, and no step removes or rewrites them.
C12_FailureEndsRun == []C12_FailedRunState /\ [][C12_Step]_vars

\* the second of at least three chunks failed to encode: the first chunk and
\* the source are on disk, the third was never written, no archive exists
C12_Witness ==
  /\ pc = "replied" /\ reply.error = "failed to save split image"
  /\ Len(chunks) = 1 /\ Len(PlanSeq) >= 3
  /\ files[chunks[1].path].kind = "chunk"
  /\ loc.tempImagePath \in DOMAIN files
  /\ PlanSeq[3].path \notin DOMAIN files
  /\ ArchivePath \notin DOMAIN files

\* the archive z holds the first n chunks of the run, in index order, each
\* under the base name of its file, and nothing else
HoldsChunks(z, n) ==
  /\ z.kind = "zip"
  /\ Len(z.entries) = n
  /\ \A k \in 1..n :
       /\ chunks[k].index = k
       /\ "/" \notin Range(z.entries[k])
       /\ Join(loc.outputDir, z.entries[k]) = chunks[k].path
       /\ files[chunks[k].path].kind = "chunk"
  /\ \A k \in 1..n : \A m \in 1..n : z.entries[k] = z.entries[m] => k = m
  /\ TempImageName(loc.imageURL) \notin Range(z.entries)
  /\ ZipFileName(req.prefix) \notin Range(z.entries)

\* C13: when a run succeeds, its archive holds exactly one entry per rendered
\* chunk, named by the chunk file's base name without a directory, in
\* ascending chunk-index order; neither the source file nor the archive
\* itself is an entry.  While the in-process loop adds, the entries are the
\* first chunks in that order.
C13_ArchiveHoldsChunks ==
  /\ (Returned /\ ret.err = "" =>
        /\ loc.zipFileName = ArchivePath
        /\ ArchivePath \in DOMAIN files
        /\ files[ArchivePath].final
        /\ Len(chunks) = Len(PlanSeq)
        /\ HoldsChunks(files[ArchivePath], Len(chunks)))
  /\ (pc = "addzip" => HoldsChunks(files[loc.zipFileName], loc.j))

\* a run of the in-process strategy succeeded with three chunks, archived as
\* p_1_01.jpg, p_1_02.jpg, p_1_03.jpg
C13_Witness ==
  /\ pc = "replied" /\ reply.code = 200 /\ ~cfg.useCLI
  /\ Len(chunks) = 3 /\ req.prefix = <<"p", "_", "1">>
  /\ files[ArchivePath].entries =
       <<<<"p", "_", "1", "_", "0", "1", ".", "j", "p", "g">>,
         <<"p", "_", "1", "_", "0", "2", ".", "j", "p", "g">>,
         <<"p", "_", "1", "_", "0", "3", ".", "j", "p", "g">>>>

\* C14: the in-process strategy finalizes its archive only when every chunk
\* was added: a finalized archive holds all chunks of the run, and after
\* "failed to add file to zip" the archive on disk is not finalized.
C14_ArchiveFinalOnlyWhenComplete ==
  (~cfg.useCLI /\ loc.zipFileName \in DOMAIN files) =>
     LET z == files[loc.zipFileName] IN
     /\ (z.final =>
           /\ loc.j = Len(chunkPaths)
           /\ Len(z.entries) = Len(chunkPaths))
     /\ (ret.err = "failed to add file to zip" => ~z.final)

\* C15: runs never share files: two runs that have a working directory have
\* different ones, whether they run side by side or start within the same
\* second, and no path written by one run is written by the other.
C15_RunsShareNoFile ==
  \A r \in RunIds : \A q \in RunIds \ {r} :
    /\ (runs[r].outputDir # <<>> /\ runs[q].outputDir # <<>> =>
          runs[r].outputDir # runs[q].outputDir)
    /\ runs[r].written \cap runs[q].written = {}

\* what C16 says of every state of serve
C16_ServeState ==
  /\ (serveRet = "nil" =>
        /\ inFlight = 0
        /\ shutdownErr = "" /\ gpc = "done"
        /\ ~listening)
  /\ (shutdownErr = DeadlineExceeded =>
        /\ elapsed = ShutdownTimeout
        /\ serveRet # "nil"
        /\ (received # <<>> => serveRet = DeadlineExceeded))
  /\ elapsed <= ShutdownTimeout

\* C16: after a shutdown signal serve does not return nil while a handler
\* executes: it returns nil only when none is in flight, and once the 30
\* seconds of grace are over with handlers still running it returns the
\* error of srv.Shutdown instead of waiting: a caught signal leads to the
\* return of serve.
C16_ShutdownWaitsForHandlers ==
  /\ []C16_ServeState
  /\ [][serveRet = "nil" => serveRet' = "nil" /\ inFlight' = 0]_vars
  /\ (gpc = "shutdown" ~> serveRet # "none")

\* the grace period ran out with a handler still executing, and serve
\* returned the deadline error
C16_Witness ==
  /\ serveRet = DeadlineExceeded /\ received = <<DeadlineExceeded>>
  /\ inFlight > 0 /\ elapsed = ShutdownTimeout

\* the name of the working directory of the run under the storage root
RunDirName == Base(loc.outputDir)

\* C17: a success result has status "success", a message with the number of
\* chunks the run produced, one path per produced chunk in ascending index
\* order, each <run directory>/<prefix>_<NN>.jpg relative to the storage
\* root, and the archive path <run directory>/<prefix>.zip.
C17_SuccessResult ==
  (Returned /\ ret.err = "") =>
     LET res == ret.result IN
     /\ res.status = "success"
     /\ res.parts = Len(chunks)
     /\ Len(res.images) = Len(chunks)
     /\ \A k \in 1..Len(res.images) :
          /\ Len(res.images[k]) = 2
          /\ res.images[k][1] = RunDirName
          /\ IsChunkName(res.images[k][2], req.prefix, k)
          /\ cfg.filePath \o res.images[k] = chunks[k].path
          /\ chunks[k].index = k
          /\ files[chunks[k].path].kind = "chunk"
     /\ res.zipUrl = <<RunDirName, req.prefix \o DotZip>>
     /\ cfg.filePath \o res.zipUrl \in DOMAIN files
     /\ (pc = "replied" => reply.code = 200 /\ reply.body = res)

\* C18: a run whose MaxHeight is zero or negative fails with a plan error
\* before its chunk loop: it never panics, never enters the loop or the
\* archive step, never renders a chunk and never returns success.
C18_NonPositiveMaxHeightFails ==
  cfg.maxHeight <= 0 =>
     /\ pc \notin {"panicked", "render", "addzip"}
     /\ chunks = <<>>
     /\ \A p \in DOMAIN files : files[p].kind # "chunk"
     /\ ~(Returned /\ ret.err = "")
     /\ reply.code # 200

\* the fetch was of a URL that does not exist: the host answered 404, or no
\* host answered and the transfer failed
NonExistentUrl ==
  /\ fetches = 1
  /\ fetched.status = 404 \/ fetched.outcome \in {"transport", "exit"}

\* C19: when the fetch of a non-existent URL fails, the run aborts with a
\* fetch error and its working directory holds no file at all (no source
\* file, no chunk, no archive); the directory itself remains.
C19_FailedFetchLeavesNoFile ==
  NonExistentUrl =>
     /\ Returned
     /\ ret.err \in FetchErrors
     /\ \A p \in DOMAIN files :
          SubSeq(p, 1, Len(loc.outputDir)) # loc.outputDir
     /\ loc.outputDir \in dirs

\* the request came without credentials or with credentials that do not
\* match both configured values
BadCredentials ==
  ~auth.ok \/ auth.username # cfg.username \/ auth.password # cfg.password

\* C20: on a server started with a username and a password, every request
\* without credentials or with credentials that do not match both values is
\* answered 401, never reaches handleSplitImage and starts no run; a request
\* that reached the handler or started a run carried both matching values.
C20_AuthGuardsHandler ==
  AuthEnabled =>
     /\ (pc # "idle" /\ BadCredentials =>
           /\ pc = "replied" /\ reply = Unauthorized
           /\ req = NoRequest
           /\ PipelineNotStarted)
     /\ (req # NoRequest \/ ~PipelineNotStarted \/ pc = "next" =>
           /\ auth.ok
           /\ auth.username = cfg.username
           /\ auth.password = cfg.password)

\* a request with the right username and a wrong password was answered 401
\* before the handler saw it
C20_Witness ==
  /\ AuthEnabled
  /\ auth.ok /\ auth.username = cfg.username /\ auth.password # cfg.password
  /\ pc = "replied" /\ reply.code = 401
  /\ req = NoRequest /\ dirs = {}

\* the steps of a run in their order, as the positions of the handler
StepOrder ==
  {<<"idle", "mkdir">>, <<"next", "mkdir">>, <<"mkdir", "download">>,
   <<"download", "probe">>, <<"probe", "render">>, <<"render", "addzip">>,
   <<"render", "returned">>, <<"addzip", "returned">>,
   <<"returned", "replied">>}

\* the ways a run ends early: a rejected request, a failed step, a panic
EarlyEnds ==
  {<<"idle", "replied">>, <<"next", "replied">>, <<"mkdir", "returned">>,
   <<"download", "returned">>, <<"probe", "returned">>,
   <<"probe", "panicked">>}

\* what the order of the steps means for a state of the run
C21_OrderState ==
  /\ (fetches > 0 => loc.outputDir \in dirs)
  /\ (loc.totalHeight > 0 \/ chunks # <<>> =>
        /\ fetches = 1 /\ fetched.outcome = "ok"
        /\ loc.tempImagePath \in DOMAIN files)
  /\ (chunks # <<>> => loc.totalHeight > 0 /\ loc.splitCount >= Len(chunks))
  /\ \A k \in 1..Len(chunks) : chunks[k].index = k
  /\ (ArchivePath \in DOMAIN files => Len(chunks) = Len(PlanSeq))
  /\ (Returned /\ ret.err = "" =>
        /\ ArchivePath \in DOMAIN files /\ files[ArchivePath].final
        /\ Len(chunks) = Len(PlanSeq))
  /\ (pc = "replied" /\ reply.code = 200 => ret.err = "" /\ reply.body = ret.result)

\* what the order of the steps means for a step of the run
C21_OrderStep ==
  /\ (pc' # pc => <<pc, pc'>> \in StepOrder \cup EarlyEnds)
  /\ (chunks' # chunks =>
        /\ pc = "render" /\ pc' = "render"
        /\ Len(chunks') = Len(chunks) + 1
        /\ SubSeq(chunks', 1, Len(chunks)) = chunks
        /\ chunks'[Len(chunks')].index = Len(chunks) + 1
        /\ ArchivePath \notin DOMAIN files)
  /\ (ret' # ret => pc' = "returned")

\* C21: within a run the steps happen in this order, each after the previous
\* one finished: working directory, fetch, probe and plan, chunk 1, chunk 2,
\* ..., chunk N one at a time in ascending order, archive, result; no chunk
\* is rendered before the fetch completed and no result is returned before
\* the archive is finalized.
C21_StepsInOrder == []C21_OrderState /\ [][C21_OrderStep]_vars

\* a run of the in-process strategy went through every step and answered
\* with three chunks and the finalized archive
C21_Witness ==
  /\ pc = "replied" /\ reply.code = 200 /\ ~cfg.useCLI
  /\ Len(chunks) = 3 /\ chunks[3].index = 3
  /\ files[ArchivePath].final
  /\ Len(files[ArchivePath].entries) = 3

\* the token is the numeral of a non-negative integer: decimal digits,
\* at least one, after an optional plus sign
IsNonNegativeNumeral(tok) ==
  LET digits == IF tok # <<>> /\ Head(tok) = "+" THEN Tail(tok) ELSE tok IN
  /\ digits # <<>>
  /\ \A k \in 1..Len(digits) : digits[k] \in Range(DigitChars)

\* C22: in the external-tool strategy the probe fails with a probe error and
\* nothing is planned whenever the output of the metadata tool lacks the
\* shape "name: WxH ..." or one of the two dimension tokens is not the
\* numeral of a non-negative integer; a negative width or height such as
\* "-5x100" never reaches the planner.
C22_MalformedOrNegativeRejected ==
  (probed.done /\ (\/ ~vipsOutput.shaped
                   \/ ~IsNonNegativeNumeral(vipsOutput.w)
                   \/ ~IsNonNegativeNumeral(vipsOutput.h))) =>
     /\ probed.err \in ProbeErrors
     /\ ~probed.planned
     /\ probed.width >= 0 /\ probed.height >= 0

\* C23: the chunk plan does not depend on the strategy: for the same width,
\* height, MaxHeight, requested width and max_images the in-process and the
\* external-tool function compute the same number of chunks and, for each
\* index, the same startY, endY, output width, x-offset and file name.
C23_StrategiesPlanAlike ==
  planned.done =>
     /\ planned.splitCountGo = planned.splitCountCLI
     /\ Len(planned.chunksGo) = Len(planned.chunksCLI)
     /\ \A k \in 1..Len(planned.chunksGo) :
          LET g == planned.chunksGo[k]
              c == planned.chunksCLI[k]
          IN /\ g.index = k /\ c.index = k
             /\ g.startY = c.startY /\ g.endY = c.endY
             /\ g.outWidth = c.outWidth /\ g.xOffset = c.xOffset
             /\ Base(g.path) = Base(c.path)

\* both strategies planned the same three chunks for an image of 4 x 5 cut
\* every 2 rows and cropped to a width of 3: the last is one row high
C23_Witness ==
  /\ planned.done
  /\ imageDims = [width |-> 4, height |-> 5]
  /\ cfg.maxHeight = 2 /\ req.width = 3 /\ req.maxImages = 0
  /\ Len(planned.chunksGo) = 3 /\ Len(planned.chunksCLI) = 3
  /\ planned.chunksCLI[3].startY = 4 /\ planned.chunksCLI[3].endY = 5
  /\ planned.chunksGo[3].outWidth = 3

\* srv.Shutdown has returned an error
ShutdownFailed == shutdownErr # "" /\ gpc # "shutdown"

\* what C24 says of every state of serve
C24_ChannelState ==
  /\ Len(received) <= 1
  /\ (received # <<>> => mpc = "returned" /\ serveRet = received[1])
  /\ (ShutdownFailed =>
        /\ gpc \in {"sendErr", "wait", "sendNil"}
        /\ serveRet # "nil"
        /\ (received # <<>> => received = <<shutdownErr>>))
  /\ (gpc \in {"wait", "sendNil"} /\ ShutdownFailed =>
        received = <<shutdownErr>> /\ serveRet = shutdownErr)
  /\ (gpc = "done" =>
        shutdownErr = "" /\ received = <<"nil">> /\ serveRet = "nil")

NamePrefixes ==
  ValidPrefixes \cup
  { <<"o", "r", "i", "g", "i", "n", "a", "l">>,
    <<"o", "r", "i", "g", "i", "n", "a", "l", "_", "i", "m", "a", "g", "e">>,
    <<"p", "_", "1", "_", "0">> }

\* the names a run gives to its source file and to its archive
ReservedNames(prefix) ==
  {TempImageName(u) : u \in Urls} \cup {ZipFileName(prefix)}

\* the chunk names of one prefix are pairwise distinct and none is reserved
NamesDistinct(prefix) ==
  /\ \A n \in 1..MaxFileNumber :
       /\ ChunkFileNameGo(prefix, n) \notin ReservedNames(prefix)
       /\ ChunkFileNameCLI(prefix, n) \notin ReservedNames(prefix)
  /\ \A n, m \in 1..MaxFileNumber :
       n < m => /\ ChunkFileNameGo(prefix, n) # ChunkFileNameGo(prefix, m)
                /\ ChunkFileNameCLI(prefix, n) # ChunkFileNameCLI(prefix, m)

\* the files of the run that a later step must leave as they are
KeptFiles == {loc.tempImagePath} \cup {chunks[k].path : k \in 1..Len(chunks)}

\* the chunks written so far have distinct paths, none of them the path of
\* the source file or of the archive
C25_RunState ==
  /\ (pc = "idle" => \A prefix \in NamePrefixes : NamesDistinct(prefix))
  /\ \A k \in 1..Len(chunks) :
       /\ chunks[k].path # loc.tempImagePath
       /\ chunks[k].path # Join(loc.outputDir, ZipFileName(req.prefix))
       /\ \A j \in 1..Len(chunks) : j # k => chunks[j].path # chunks[k].path
  /\ (pc \in {"addzip", "returned"} /\ loc.zipFileName # <<>> =>
        loc.zipFileName \notin KeptFiles)

\* a render or archive step leaves the source file and the earlier chunks
C25_RunStep ==
  pc \in {"render", "addzip"} =>
    \A p \in KeptFiles \cap DOMAIN files :
      p \in DOMAIN files' /\ files'[p] = files[p]

\* C25: for every prefix of letters, digits and underscores (the empty one
\* too) and every chunk count, the chunk file names of a run are pairwise
\* distinct and none is the name of the source file (original_image.jpg or
\* .png) or of the archive (<prefix>.zip); no render or archive step of a
\* run overwrites the source file or an earlier chunk of the run.
C25_NamesNeverCollide == []C25_RunState /\ [][C25_RunStep]_vars

\* a run with the empty prefix wrote twelve chunks and its archive: the
\* source file, the archive and the chunks are fourteen files
C25_Witness ==
  /\ pc = "replied" /\ reply.code = 200
  /\ req.prefix = <<>> /\ Len(chunks) = 12
  /\ Base(chunks[1].path) = <<"_", "0", "1", ".", "j", "p", "g">>
  /\ loc.tempImagePath \in DOMAIN files
  /\ loc.zipFileName \in DOMAIN files /\ files[loc.zipFileName].final
  /\ Cardinality(DOMAIN files) = 14

====
